---- MODULE Spec2Model ----
(***************************************************************************)
(* Model of src/src/package.ts (class Package): the resolution cache, the  *)
(* registry client apiRequest with its retry loop and apiCache, the        *)
(* version resolver fromSemanticVersion and the dependency expansion       *)
(* getDependencies.                                                        *)
(*                                                                         *)
(* Strings are sequences of one-character strings, so that concatenation,  *)
(* parsing and coercion are computed and not assumed.  Package instances   *)
(* live in a heap (the sequence nodes); a Package reference is an index    *)
(* into it, 0 standing for undefined.  JavaScript runs one callback at a   *)
(* time: every action below is the code that runs between two awaits.      *)
(***************************************************************************)
EXTENDS Integers, Sequences, FiniteSets, TLC

VARIABLES
    registry,   \* what the npm registry publishes (environment, fixed in a run)
    nodes,      \* heap of Package instances, in order of construction
    cache,      \* Package.cache    : PackageFullName -> Package
    apiCache,   \* Package.apiCache : PackageName -> APIResponse
    tasks,      \* the async calls in progress, one record per call slot
    lastCall,   \* the last synchronous call made and what it returned
    files,      \* the files written to the working directory, in order
    history     \* the calls the program's caller has made so far, in order

vars == <<registry, nodes, cache, apiCache, tasks, lastCall, files, history>>

----------------------------------------------------------------------------
(* Bounds of the model *)

\* The heap holds at most this many Package instances.
MaxNodes == 3
\* The caller makes at most this many calls in a run.
MaxCalls == 3

\* static readonly MAX_TRIES
MAX_TRIES == 10

----------------------------------------------------------------------------
(* Strings *)

AT == <<"@">>
LATEST == <<"l", "a", "t", "e", "s", "t">>
STAR == <<"*">>
EMPTY == <<>>
Digits == {"0", "1", "2", "3", "4", "5", "6", "7", "8", "9"}

DigitVal(c) ==
    CASE c = "0" -> 0 [] c = "1" -> 1 [] c = "2" -> 2 [] c = "3" -> 3
      [] c = "4" -> 4 [] c = "5" -> 5 [] c = "6" -> 6 [] c = "7" -> 7
      [] c = "8" -> 8 [] c = "9" -> 9

\* String.prototype.includes for a one-character needle
includes(s, c) == \E i \in 1..Len(s) : s[i] = c

\* String.prototype.indexOf(c) counted from 1; 0 when c does not occur
indexOf(s, c) ==
    IF includes(s, c) THEN CHOOSE i \in 1..Len(s) : s[i] = c /\ \A j \in 1..(i - 1) : s[j] # c
    ELSE 0

\* a version string "X.Y.Z" from three digit characters
VersionString(x, y, z) == <<x, ".", y, ".", z>>

\* a concrete X.Y.Z version string (one digit per component in this model)
IsConcreteVersion(v) ==
    /\ Len(v) = 5
    /\ v[1] \in Digits /\ v[2] = "." /\ v[3] \in Digits /\ v[4] = "." /\ v[5] \in Digits

\* function fullNameByNameAndVersion
fullNameByNameAndVersion(name, version) == name \o AT \o version

----------------------------------------------------------------------------
(* semver *)

\* semver.coerce(s)?.version : the first digit of s starts the version; a
\* following ".digit" gives the minor and a further ".digit" the patch, missing
\* components are 0.  EMPTY stands for null (nothing to coerce).
coerce(s) ==
    IF \A i \in 1..Len(s) : s[i] \notin Digits THEN EMPTY
    ELSE
        LET i == CHOOSE k \in 1..Len(s) : s[k] \in Digits /\ \A j \in 1..(k - 1) : s[j] \notin Digits
            hasMinor == i + 2 <= Len(s) /\ s[i + 1] = "." /\ s[i + 2] \in Digits
            hasPatch == hasMinor /\ i + 4 <= Len(s) /\ s[i + 3] = "." /\ s[i + 4] \in Digits
        IN  VersionString(s[i], IF hasMinor THEN s[i + 2] ELSE "0", IF hasPatch THEN s[i + 4] ELSE "0")

\* semver.lt on two X.Y.Z version strings
versionLt(v, w) ==
    LET a == <<DigitVal(v[1]), DigitVal(v[3]), DigitVal(v[5])>>
        b == <<DigitVal(w[1]), DigitVal(w[3]), DigitVal(w[5])>>
    IN  \/ a[1] < b[1]
        \/ a[1] = b[1] /\ a[2] < b[2]
        \/ a[1] = b[1] /\ a[2] = b[2] /\ a[3] < b[3]

\* semver.satisfies(v, range) for the ranges of this model: "<X.Y.Z" and
\* "^X.Y.Z" are the valid range forms (the caret allows the changes that keep
\* the left-most non-zero component); nothing satisfies an invalid range.
satisfies(v, range) ==
    /\ Len(range) = 6
    /\ IsConcreteVersion(Tail(range))
    /\ IsConcreteVersion(v)
    /\ LET w == Tail(range)
       IN  \/ range[1] = "<" /\ versionLt(v, w)
           \/ /\ range[1] = "^"
              /\ ~versionLt(v, w)
              /\ v[1] = w[1]
              /\ w[1] = "0" => v[3] = w[3]
              /\ (w[1] = "0" /\ w[3] = "0") => v[5] = w[5]

\* semver.maxSatisfying(versions, range); EMPTY stands for null
maxSatisfying(versions, range) ==
    LET ok == {v \in versions : satisfies(v, range)}
    IN  IF ok = {} THEN EMPTY
        ELSE CHOOSE v \in ok : \A w \in ok : w = v \/ versionLt(w, v)

----------------------------------------------------------------------------
(* Package instances *)

\* tarballURL: string | undefined.  A URL is the sequence of its segments
\* between the "/"; the empty sequence stands for undefined (and for "", which
\* is falsy as well).
NoTarball == <<>>

\* path.basename(url): the final path segment
basename(url) == url[Len(url)]

\* get tgzFileName; "" stands for undefined
tgzFileName(pkg) ==
    IF pkg.tarballURL = NoTarball THEN "" ELSE basename(pkg.tarballURL)

\* protected constructor(name, version) and the field initialisers
NewPackage(name, version) ==
    [name |-> name, version |-> version,
     dependencies |-> <<>>, dependents |-> <<>>,
     error |-> FALSE, loading |-> FALSE, resolved |-> FALSE,
     tarballURL |-> NoTarball]

\* get fullName
fullName(pkg) == fullNameByNameAndVersion(pkg.name, pkg.version)

\* get isRoot
isRoot(pkg) == Len(pkg.dependents) = 0

isEqual_byName(a, b) == a.name = b.name

\* isEqual
isEqual(a, b) == fullName(a) = fullName(b)

SeqContains(s, x) == \E i \in 1..Len(s) : s[i] = x

addDependent_always(ns, child, parent) ==
    [ns EXCEPT ![child].dependents = Append(@, parent)]

\* addDependent: child.addDependent(parent) on the heap ns
addDependent(ns, child, parent) ==
    IF SeqContains(ns[child].dependents, parent) THEN ns
    ELSE [ns EXCEPT ![child].dependents = Append(@, parent)]

\* isAncestorEqual: self.isAncestorEqual(pkg).  `fuel` bounds the depth of the
\* recursion: the walk of an acyclic dependents relation never needs more than
\* the number of nodes; running out of it is the unbounded recursion of the
\* code (a stack overflow), reported as "overflow".
RECURSIVE isAncestorEqualFrom(_, _, _, _, _)
isAncestorEqualWalk(ns, self, pkg, fuel) ==
    IF isEqual(ns[pkg], ns[self]) THEN "true"
    ELSE IF isRoot(ns[self]) THEN "false"
    ELSE IF fuel = 0 THEN "overflow"
    ELSE isAncestorEqualFrom(ns, self, pkg, fuel, 1)

\* Array.prototype.some over self.dependents from index i on, left to right
isAncestorEqualFrom(ns, self, pkg, fuel, i) ==
    IF i > Len(ns[self].dependents) THEN "false"
    ELSE LET r == isAncestorEqualWalk(ns, ns[self].dependents[i], pkg, fuel - 1)
         IN  IF r = "false" THEN isAncestorEqualFrom(ns, self, pkg, fuel, i + 1) ELSE r

isAncestorEqual_rootOnly(ns, self, pkg) ==
    IF isEqual(ns[pkg], ns[self]) THEN "true" ELSE "false"

isAncestorEqual(ns, self, pkg) == isAncestorEqualWalk(ns, self, pkg, Len(ns))

----------------------------------------------------------------------------
(* The resolution cache *)

fromNameAndVersion_noLookup(ns, ch, name, version) ==
    LET result == NewPackage(name, version)
        idx == Len(ns) + 1
    IN  [nodes |-> Append(ns, result),
         cache |-> [k \in (DOMAIN ch) \cup {fullName(result)} |->
                        IF k = fullName(result) THEN idx ELSE ch[k]],
         ret |-> idx]

\* static fromNameAndVersion(name, version): the heap and cache afterwards and
\* the Package returned
fromNameAndVersion(ns, ch, name, version) ==
    LET fullNameKey == fullNameByNameAndVersion(name, version)
    IN  IF fullNameKey \in DOMAIN ch
        THEN [nodes |-> ns, cache |-> ch, ret |-> ch[fullNameKey]]
        ELSE LET result == NewPackage(name, version)
                 idx == Len(ns) + 1
             IN  [nodes |-> Append(ns, result),
                  cache |-> [k \in (DOMAIN ch) \cup {fullName(result)} |->
                                 IF k = fullName(result) THEN idx ELSE ch[k]],
                  ret |-> idx]

----------------------------------------------------------------------------
(* Specifier parsing: npmPackageArg as fromString uses it *)

NameChars == {"a", "b", "c", "-", "."} \cup Digits
TagChars == {"a", "b", "c", "l", "t", "e", "s", "x", "-", ".", "*"} \cup Digits

\* a registry spec npm-package-arg accepts: a version, a range, or a tag
\* (a tag is a string encodeURIComponent leaves unchanged)
ValidSpec(spec) ==
    \/ IsConcreteVersion(spec)
    \/ Len(spec) = 6 /\ spec[1] \in {"^", "<"} /\ IsConcreteVersion(Tail(spec))
    \/ \A i \in 1..Len(spec) : spec[i] \in TagChars

ValidName(name) ==
    /\ Len(name) > 0
    /\ name[1] # "."
    /\ \A i \in 1..Len(name) : name[i] \in NameChars

\* npmPackageArg(arg): [ok, name, fetchSpec]; ok = FALSE stands for the
\* exception it throws.  The name ends at the first "@" that is not the first
\* character; a missing or empty spec is fetched as "latest".
npmPackageArg(arg) ==
    LET nameEndsAt == IF arg # EMPTY /\ arg[1] = "@" THEN indexOf(Tail(arg), "@")
                      ELSE indexOf(arg, "@") - 1
        name == IF nameEndsAt > 0 THEN SubSeq(arg, 1, nameEndsAt) ELSE arg
        rawSpec == IF nameEndsAt > 0 THEN SubSeq(arg, nameEndsAt + 2, Len(arg)) ELSE EMPTY
        fetchSpec == IF rawSpec = EMPTY THEN LATEST ELSE rawSpec
    IN  [ok |-> ValidName(name) /\ ValidSpec(fetchSpec), name |-> name, fetchSpec |-> fetchSpec]

\* static fromString(pacakgeNameInAnyFormat); ret = 0 stands for undefined
fromString(ns, ch, packageNameInAnyFormat) ==
    LET packageArgResult == npmPackageArg(packageNameInAnyFormat)
    IN  IF packageArgResult.ok
        THEN fromNameAndVersion(ns, ch, packageArgResult.name, packageArgResult.fetchSpec)
        ELSE [nodes |-> ns, cache |-> ch, ret |-> 0]

fillCacheStep_unresolved(ns, ch, fullNameArg) ==
    LET r == fromString(ns, ch, fullNameArg)
    IN  IF r.ret = 0 THEN [nodes |-> ns, cache |-> ch]
        ELSE [nodes |-> r.nodes,
              cache |-> [k \in (DOMAIN r.cache) \cup {fullNameArg} |->
                             IF k = fullNameArg THEN r.ret ELSE r.cache[k]]]

\* one iteration of the loop of fillCacheByFullNames
fillCacheStep(ns, ch, fullNameArg) ==
    LET r == fromString(ns, ch, fullNameArg)
    IN  IF r.ret = 0 THEN [nodes |-> ns, cache |-> ch]
        ELSE [nodes |-> [r.nodes EXCEPT ![r.ret].resolved = TRUE],
              cache |-> [k \in (DOMAIN r.cache) \cup {fullNameArg} |->
                             IF k = fullNameArg THEN r.ret ELSE r.cache[k]]]

\* static fillCacheByFullNames(fullNames)
RECURSIVE fillCacheByFullNames(_, _, _)
fillCacheByFullNames(ns, ch, fullNames) ==
    IF fullNames = <<>> THEN [nodes |-> ns, cache |-> ch]
    ELSE LET r == fillCacheStep(ns, ch, Head(fullNames))
         IN  fillCacheByFullNames(r.nodes, r.cache, Tail(fullNames))

----------------------------------------------------------------------------
(* The registry (environment) and its responses *)

\* dist.tarball of a published version
TarballURL(file) == <<"https:", "", "registry.npmjs.org", "-", file>>

NameA == <<"a">>
NameB == <<"b">>
NameC == <<"c">>
V100 == VersionString("1", "0", "0")
V300 == VersionString("3", "0", "0")
V393 == VersionString("3", "9", "3")
V400 == VersionString("4", "0", "0")

\* interface APIResponse: a version's metadata (dependencies?, dist?.tarball)
VersionMetadata(hasDeps, deps, tarball) ==
    [hasDeps |-> hasDeps, dependencies |-> deps, tarball |-> tarball,
     hasVersions |-> FALSE, versions |-> <<>>]

\* interface APIResponse: the answer to a request without version (versions?)
Packument(hasVersions, versions) ==
    [hasDeps |-> FALSE, dependencies |-> <<>>, tarball |-> NoTarball,
     hasVersions |-> hasVersions, versions |-> versions]

NoResponse == Packument(FALSE, <<>>)

\* The registry of the general specification.  a@1.0.0 depends on c and on b
\* (a dependencies object has one entry per name; "<4.0.0" is b@3.9.3),
\* b@3.9.3 depends back on a@1.0.0, b@3.0.0 has no dependency list, b@4.0.0
\* has no tarball and depends on a@latest; c answers without a versions map.
MainRegistry ==
    (NameA :> [latest |-> V100, hasVersions |-> TRUE, versions |->
                (V100 :> VersionMetadata(TRUE, <<<<NameC, <<"^">> \o V300>>, <<NameB, <<"<">> \o V400>>>>,
                                         TarballURL("a-1.0.0.tgz")))])
    @@ (NameB :> [latest |-> V400, hasVersions |-> TRUE, versions |->
                (V300 :> VersionMetadata(FALSE, <<>>, TarballURL("b-3.0.0.tgz")))
                @@ (V393 :> VersionMetadata(TRUE, <<<<NameA, V100>>>>, TarballURL("b-3.9.3.tgz")))
                @@ (V400 :> VersionMetadata(TRUE, <<<<NameA, STAR>>>>, NoTarball))])
    @@ (NameC :> [latest |-> V100, hasVersions |-> FALSE, versions |-> <<>>])

\* GET https://registry.npmjs.org/<name>/<version> when the registry answers:
\* found = FALSE is HTTP 404, otherwise body is the parsed response.
RegistryAnswer(reg, name, version) ==
    IF name \notin DOMAIN reg THEN [found |-> FALSE, body |-> NoResponse]
    ELSE IF version = EMPTY
        THEN [found |-> TRUE,
              body |-> Packument(reg[name].hasVersions,
                                 IF reg[name].hasVersions THEN reg[name].versions ELSE <<>>)]
    ELSE IF ~reg[name].hasVersions THEN [found |-> FALSE, body |-> NoResponse]
    ELSE IF version \in DOMAIN reg[name].versions
        THEN [found |-> TRUE, body |-> reg[name].versions[version]]
    ELSE IF version = LATEST
        THEN [found |-> TRUE, body |-> reg[name].versions[reg[name].latest]]
    ELSE [found |-> FALSE, body |-> NoResponse]

\* What one attempt (fetch, then response.json()) can come to:
\*   "exception" fetch rejects            "notfound" status 404
\*   "status"    another non-ok status    "badbody"  json() rejects or is empty
\*   "ok"        a parsed response body
FetchOutcomes == {"exception", "notfound", "status", "badbody", "ok"}

NOT_FOUND == "not found"
REGISTRY_ERROR == "REGISTRY_ERROR"
TOO_MANY_FAILURES == "too many failures"
StatusText == "Internal Server Error"
TypeError == "TypeError"
RangeError == "RangeError"

----------------------------------------------------------------------------
(* apiRequest *)

Value(resp) == [kind |-> "value", resp |-> resp, err |-> ""]
Undefined == [kind |-> "undefined", resp |-> NoResponse, err |-> ""]
Throw(err) == [kind |-> "throw", resp |-> NoResponse, err |-> err]
Fetching == [kind |-> "fetch", resp |-> NoResponse, err |-> ""]

apiRequest_call_uncached(ac, name, version) == Fetching

\* apiRequest up to its first await: the apiCache lookup.  "fetch" means the
\* name is not cached and the first request is issued.
apiRequest_call(ac, name, version) ==
    IF name \in DOMAIN ac
    THEN IF version # EMPTY
         THEN IF ~ac[name].hasVersions THEN Throw(TypeError)
              ELSE IF version \in DOMAIN ac[name].versions
                   THEN Value(ac[name].versions[version])
                   ELSE Undefined
         ELSE Value(ac[name])
    ELSE Fetching

onErrorStatus_retry(triesCount, outcome) ==
    IF triesCount + 1 < MAX_TRIES
    THEN [triesCount |-> triesCount + 1, out |-> Fetching]
    ELSE [triesCount |-> triesCount + 1, out |-> Throw(TOO_MANY_FAILURES)]

\* if (!response.ok) switch (response.status): both cases throw
onErrorStatus(triesCount, outcome) ==
    [triesCount |-> triesCount,
     out |-> IF outcome = "notfound" THEN Throw(REGISTRY_ERROR) ELSE Throw(StatusText)]

onFailedAttempt_oneMore(triesCount, outcome) ==
    IF triesCount + 1 <= MAX_TRIES
    THEN [triesCount |-> triesCount + 1, out |-> Fetching]
    ELSE [triesCount |-> triesCount + 1, out |-> Throw(TOO_MANY_FAILURES)]

\* continue / a caught exception: while (++triesCount < MAX_TRIES), then the
\* throw of TOO_MANY_FAILURES
onFailedAttempt(triesCount, outcome) ==
    IF triesCount + 1 < MAX_TRIES
    THEN [triesCount |-> triesCount + 1, out |-> Fetching]
    ELSE [triesCount |-> triesCount + 1, out |-> Throw(TOO_MANY_FAILURES)]

\* apiRequest from the end of one attempt to its next await or its end:
\* the apiCache, triesCount and what happens next ("fetch": one more attempt)
apiRequest_afterFetch(ac, reg, name, version, triesCount, outcome) ==
    IF outcome \in {"exception", "badbody"}
    THEN [apiCache |-> ac] @@ onFailedAttempt(triesCount, outcome)
    ELSE IF outcome \in {"notfound", "status"}
    THEN [apiCache |-> ac] @@ onErrorStatus(triesCount, outcome)
    ELSE LET apiResponse == RegistryAnswer(reg, name, version).body
         IN  [apiCache |-> IF version = EMPTY
                           THEN [n \in (DOMAIN ac) \cup {name} |->
                                    IF n = name THEN apiResponse ELSE ac[n]]
                           ELSE ac,
              triesCount |-> triesCount,
              out |-> Value(apiResponse)]

----------------------------------------------------------------------------
(* Async calls.  A task is one call of getDependencies or fromSemanticVersion *)
(* made by the program's caller; pc is the await it is suspended at.          *)

\* the calls that can be in progress at once
CallSlots == {1, 2}

NoRet == [kind |-> "none", pkgs |-> <<>>, pkg |-> 0, err |-> ""]
Return(pkgs) == [kind |-> "return", pkgs |-> pkgs, pkg |-> 0, err |-> ""]
ReturnPkg(pkg) == [kind |-> "return", pkgs |-> <<>>, pkg |-> pkg, err |-> ""]
Raise(err) == [kind |-> "throw", pkgs |-> <<>>, pkg |-> 0, err |-> err]

IdleTask ==
    [op |-> "none", pc |-> "idle",
     self |-> 0,                 \* this of getDependencies
     reqName |-> EMPTY,          \* apiRequest.name
     reqVersion |-> EMPTY,       \* apiRequest.version ("" when absent)
     triesCount |-> 0,           \* triesCount of apiRequest
     fetches |-> 0,              \* fetch() calls of the last apiRequest
     lastOutcome |-> "none",     \* what its last attempt came to
     errorBefore |-> FALSE,      \* this.error when getDependencies was called
     metaOutcome |-> "none",     \* the last attempt of the apiRequest of line 95
     out |-> Undefined,          \* what the awaited apiRequest came to
     result |-> <<>>,            \* result of getDependencies
     todo |-> <<>>,              \* the entries the for loop has not reached
     depName |-> EMPTY,          \* name of fromSemanticVersion
     semanticVersion |-> EMPTY,  \* semanticVersion of fromSemanticVersion
     dependency |-> 0,           \* dependency of getDependencies
     ret |-> NoRet,              \* how the call ended
     exit |-> "none"]            \* the place in the code where it ended

\* The shared state together with the running task's locals.
World(id) ==
    [nodes |-> nodes, cache |-> cache, apiCache |-> apiCache, files |-> files,
     t |-> tasks[id]]

\* The call ends; its locals other than the arguments go out of scope (the
\* outcome of its last attempt is kept to tell how it ended).
Finish(W, ret, exit) ==
    [W EXCEPT !.t = [IdleTask EXCEPT !.op = W.t.op, !.pc = "done", !.self = W.t.self,
                                     !.depName = W.t.depName,
                                     !.semanticVersion = W.t.semanticVersion,
                                     !.lastOutcome = W.t.lastOutcome,
                                     !.errorBefore = W.t.errorBefore,
                                     !.metaOutcome = W.t.metaOutcome,
                                     !.ret = ret, !.exit = exit]]

\* The call of apiRequest by the running task: answered from apiCache (the
\* caller then resumes at retPc) or the first fetch (lines 162-180).
enterApiRequest(W, name, version, fetchPc, retPc) ==
    LET r == apiRequest_call(W.apiCache, name, version)
    IN  IF r.kind = "fetch"
        THEN [W EXCEPT !.t.pc = fetchPc, !.t.reqName = name, !.t.reqVersion = version,
                       !.t.triesCount = 0, !.t.fetches = 1, !.t.lastOutcome = "none"]
        ELSE [W EXCEPT !.t.pc = retPc, !.t.reqName = name, !.t.reqVersion = version,
                       !.t.triesCount = 0, !.t.fetches = 0, !.t.lastOutcome = "none",
                       !.t.out = r]

\* The running task's apiRequest resumes after an attempt (lines 181-211).
resumeApiRequest(W, reg, outcome, retPc) ==
    LET r == apiRequest_afterFetch(W.apiCache, reg, W.t.reqName, W.t.reqVersion,
                                   W.t.triesCount, outcome)
    IN  IF r.out.kind = "fetch"
        THEN [W EXCEPT !.t.triesCount = r.triesCount, !.t.fetches = @ + 1,
                       !.t.lastOutcome = outcome]
        ELSE [W EXCEPT !.apiCache = r.apiCache, !.t.lastOutcome = outcome,
                       !.t.triesCount = r.triesCount, !.t.out = r.out, !.t.pc = retPc]

\* fromSemanticVersion, line 248: return this.fromNameAndVersion(name, version)
fromSemanticVersion_return(W, version) ==
    LET r == fromNameAndVersion(W.nodes, W.cache, W.t.depName, version)
        W1 == [W EXCEPT !.nodes = r.nodes, !.cache = r.cache]
    IN  IF W.t.op = "fromSemanticVersion"
        THEN Finish(W1, ReturnPkg(r.ret), "fromSemanticVersion:248")
        ELSE [W1 EXCEPT !.t.pc = "gd_fsvret", !.t.dependency = r.ret]

needsRegistry_anyRange(semanticVersion) ==
    includes(semanticVersion, "<") \/ includes(semanticVersion, "-")
        \/ includes(semanticVersion, "^")

\* semanticVersion.includes("<") || semanticVersion.includes("-")
needsRegistry(semanticVersion) ==
    includes(semanticVersion, "<") \/ includes(semanticVersion, "-")

\* fromSemanticVersion up to its first await (lines 233-247)
fromSemanticVersion_call(W, name, semanticVersion) ==
    LET W1 == [W EXCEPT !.t.depName = name, !.t.semanticVersion = semanticVersion]
    IN  IF semanticVersion = STAR
        THEN fromSemanticVersion_return(W1, LATEST)
        ELSE IF needsRegistry(semanticVersion)
        THEN enterApiRequest(W1, name, EMPTY, "fsv_fetch", "fsv_apiret")
        ELSE fromSemanticVersion_return(W1,
                 IF coerce(semanticVersion) = EMPTY THEN LATEST ELSE coerce(semanticVersion))

\* fromSemanticVersion after its await of apiRequest (lines 241-248)
fromSemanticVersion_afterApiRequest(W) ==
    IF W.t.out.kind = "throw"
    THEN Finish(W, Raise(W.t.out.err), "fromSemanticVersion:242")
    ELSE IF ~W.t.out.resp.hasVersions
    THEN Finish(W, Raise(TypeError), "fromSemanticVersion:244")
    ELSE LET m == maxSatisfying(DOMAIN W.t.out.resp.versions, W.t.semanticVersion)
         IN  fromSemanticVersion_return(W, IF m = EMPTY THEN LATEST ELSE m)

\* getDependencies: the for loop from the head of an iteration to the await of
\* fromSemanticVersion (lines 112-116), or past the loop to the end (142-143)
getDependencies_loop(W) ==
    IF W.t.todo = <<>>
    THEN Finish([W EXCEPT !.nodes[W.t.self].dependencies = W.t.result],
                Return(W.t.result), "getDependencies:143")
    ELSE LET pkg == Head(W.t.todo)
         IN  fromSemanticVersion_call([W EXCEPT !.t.todo = Tail(@)], pkg[1], pkg[2])

\* getDependencies up to its first await (lines 91-95)
getDependencies_call(W, self) ==
    LET W1 == [W EXCEPT !.nodes[self].loading = TRUE,
                        !.t = [IdleTask EXCEPT !.op = "getDependencies", !.self = self,
                                               !.errorBefore = W.nodes[self].error]]
    IN  enterApiRequest(W1, W.nodes[self].name, W.nodes[self].version, "gd_fetch", "gd_apiret")

caseRegistryError_notFound(error) == error = NOT_FOUND

\* switch (error) { case Errors.REGISTRY_ERROR:
caseRegistryError(error) == error = REGISTRY_ERROR

\* getDependencies after its await of apiRequest (lines 96-116)
getDependencies_afterApiRequest(W0) ==
    LET W == [W0 EXCEPT !.t.metaOutcome = W0.t.lastOutcome]
        self == W.t.self
        out == W.t.out
    IN  IF out.kind = "throw"
        THEN IF caseRegistryError(out.err)
             THEN Finish(W, Return(W.t.result), "getDependencies:99")
             ELSE Finish([W EXCEPT !.nodes[self].error = TRUE, !.nodes[self].loading = FALSE],
                         Raise(out.err), "getDependencies:104")
        ELSE IF out.kind = "undefined"
        THEN Finish(W, Raise(TypeError), "getDependencies:107")
        ELSE LET W1 == [W EXCEPT !.nodes[self].tarballURL = out.resp.tarball]
             IN  IF ~out.resp.hasDeps
                 THEN Finish(W1, Return(W.t.result), "getDependencies:109")
                 ELSE getDependencies_loop([W1 EXCEPT !.t.todo = out.resp.dependencies])

getDependencies_afterFromSemanticVersion_noCheck(W) ==
    getDependencies_loop(
        [W EXCEPT !.nodes = addDependent(W.nodes, W.t.dependency, W.t.self),
                  !.t.result = Append(@, W.t.dependency)])

\* getDependencies after its await of fromSemanticVersion (lines 116-123)
getDependencies_afterFromSemanticVersion(W) ==
    LET self == W.t.self
        dependency == W.t.dependency
        cyclic == isAncestorEqual(W.nodes, self, dependency)
    IN  IF cyclic = "overflow"
        THEN Finish(W, Raise(RangeError), "getDependencies:118")
        ELSE IF cyclic = "true"
        THEN getDependencies_loop(W)
        ELSE getDependencies_loop(
                 [W EXCEPT !.nodes = addDependent(W.nodes, dependency, self),
                           !.t.result = Append(@, dependency)])

----------------------------------------------------------------------------
(* download *)

NotEnoughData == "not enough data for download tgz file"
\* the string thrown at line 86 (in the code it is wrapped in backquotes)
DownloadFailed == "downloading ${this} failed"

\* What await fetch(this.tarballURL) can come to: it rejects ("exception") or
\* resolves to a response, whose status is 404, another non-ok one, or ok.
DownloadFetchOutcomes == {"exception", "notfound", "status", "ok"}
\* What await response.buffer() can come to: it rejects or yields the body.
BufferOutcomes == {"exception", "data"}

\* download up to its first await (lines 69-77)
download_call(W, self) ==
    LET W1 == [W EXCEPT !.t = [IdleTask EXCEPT !.op = "download", !.self = self]]
    IN  IF W.nodes[self].tarballURL = NoTarball \/ tgzFileName(W.nodes[self]) = ""
        THEN Finish(W1, Raise(NotEnoughData), "download:70")
        ELSE [W1 EXCEPT !.t.pc = "dl_fetch", !.t.triesCount = 0, !.t.fetches = 1]

\* a caught exception: while (++triesCount < MAX_TRIES), then the throw of
\* line 86
download_failedAttempt(W, outcome) ==
    IF W.t.triesCount + 1 < MAX_TRIES
    THEN [W EXCEPT !.t.triesCount = @ + 1, !.t.fetches = @ + 1, !.t.pc = "dl_fetch",
                   !.t.lastOutcome = outcome]
    ELSE Finish([W EXCEPT !.t.lastOutcome = outcome], Raise(DownloadFailed), "download:86")

\* download after await fetch(...) (lines 77-79, 82-86): a response of any
\* status goes on to response.buffer()
download_afterFetch(W, outcome) ==
    IF outcome = "exception"
    THEN download_failedAttempt(W, outcome)
    ELSE [W EXCEPT !.t.pc = "dl_buffer", !.t.lastOutcome = outcome]

\* fs.writeFileSync(path.resolve(process.cwd(), this.tgzFileName), tgzFileData):
\* the body of a response with a non-ok status is the registry's error page
writeFileSync(fs, fileName, status) ==
    Append(fs, [name |-> fileName,
                data |-> IF status = "ok" THEN "archive" ELSE "error body"])

\* download after await response.buffer() (lines 79-87)
download_afterBuffer(W, outcome) ==
    IF outcome = "exception"
    THEN download_failedAttempt(W, "badbody")
    ELSE Finish([W EXCEPT !.files = writeFileSync(@, tgzFileName(W.nodes[W.t.self]),
                                                  W.t.lastOutcome)],
                Return(<<>>), "download:87")

----------------------------------------------------------------------------
(* Inputs of the calls *)

\* "a@1.0.0", "b", "b@^3.0.0", "b@3.9.3" and the ill-formed "a@b c"
SpecA100 == NameA \o AT \o V100
SpecBCaret == NameB \o AT \o <<"^">> \o V300
SpecB393 == NameB \o AT \o V393
SpecIllFormed == NameA \o AT \o <<"b", " ", "c">>
SpecifierInputs == {SpecA100, NameB, SpecBCaret, SpecIllFormed}

\* the lists given to fillCacheByFullNames
SeedLists == {<<SpecA100>>, <<SpecB393, SpecIllFormed, SpecA100>>, <<NameB>>}

Caret300 == <<"^">> \o V300
Below400 == <<"<">> \o V400
\* (name, semanticVersion) given to fromSemanticVersion by the caller
ResolveInputs ==
    {<<NameB, Caret300>>, <<NameB, Below400>>, <<NameA, STAR>>, <<NameC, Below400>>,
     <<NameB, <<"x", "-", "y">>>>}

NoCall == [op |-> "none", args |-> <<>>, ret |-> 0]

----------------------------------------------------------------------------
(* Actions *)

Init ==
    /\ registry = MainRegistry
    /\ nodes = <<>>
    /\ cache = <<>>
    /\ apiCache = <<>>
    /\ tasks = [id \in CallSlots |-> IdleTask]
    /\ lastCall = NoCall
    /\ files = <<>>
    /\ history = <<>>

\* The running task's step ends: its writes become the shared state.
Commit(id, W) ==
    /\ Len(W.nodes) <= MaxNodes
    /\ nodes' = W.nodes
    /\ cache' = W.cache
    /\ apiCache' = W.apiCache
    /\ files' = W.files
    /\ tasks' = [tasks EXCEPT ![id] = W.t]
    /\ UNCHANGED <<registry, lastCall>>

\* the caller makes one more call
Call(op, args, self) ==
    /\ Len(history) < MaxCalls
    /\ history' = Append(history, [op |-> op, args |-> args, self |-> self])

Free(id) == tasks[id].pc \in {"idle", "done"}

\* the caller calls Package.fromString(s)
FromString(s) ==
    LET r == fromString(nodes, cache, s)
    IN  /\ Call("fromString", <<s>>, 0)
        /\ Len(r.nodes) <= MaxNodes
        /\ nodes' = r.nodes
        /\ cache' = r.cache
        /\ lastCall' = [op |-> "fromString", args |-> <<s>>, ret |-> r.ret]
        /\ UNCHANGED <<registry, apiCache, tasks, files>>

\* the caller calls Package.fillCacheByFullNames(fullNames)
FillCacheByFullNames(fullNames) ==
    LET r == fillCacheByFullNames(nodes, cache, fullNames)
    IN  /\ Call("fillCacheByFullNames", fullNames, 0)
        /\ Len(r.nodes) <= MaxNodes
        /\ nodes' = r.nodes
        /\ cache' = r.cache
        /\ lastCall' = [op |-> "fillCacheByFullNames", args |-> fullNames, ret |-> 0]
        /\ UNCHANGED <<registry, apiCache, tasks, files>>

\* the caller calls pkg.getDependencies() on an existing Package
GetDependencies(id, self) ==
    /\ Free(id)
    /\ Call("getDependencies", <<>>, self)
    /\ Commit(id, getDependencies_call(World(id), self))

\* the caller calls Package.fromSemanticVersion(name, semanticVersion)
FromSemanticVersion(id, name, semanticVersion) ==
    /\ Free(id)
    /\ Call("fromSemanticVersion", <<name, semanticVersion>>, 0)
    /\ Commit(id, fromSemanticVersion_call(
                      [World(id) EXCEPT !.t = [IdleTask EXCEPT !.op = "fromSemanticVersion"]],
                      name, semanticVersion))

\* an attempt of the apiRequest a task awaits comes to an end
Attempt(id, outcome) ==
    /\ tasks[id].pc \in {"gd_fetch", "fsv_fetch"}
    /\ outcome = "ok" => RegistryAnswer(registry, tasks[id].reqName, tasks[id].reqVersion).found
    /\ Commit(id, resumeApiRequest(World(id), registry, outcome,
                                   IF tasks[id].pc = "gd_fetch" THEN "gd_apiret" ELSE "fsv_apiret"))
    /\ UNCHANGED history

\* getDependencies resumes after await Package.apiRequest(...)
ResumeGetDependencies(id) ==
    /\ tasks[id].pc = "gd_apiret"
    /\ Commit(id, getDependencies_afterApiRequest(World(id)))
    /\ UNCHANGED history

\* fromSemanticVersion resumes after await Package.apiRequest(...)
ResumeFromSemanticVersion(id) ==
    /\ tasks[id].pc = "fsv_apiret"
    /\ Commit(id, fromSemanticVersion_afterApiRequest(World(id)))
    /\ UNCHANGED history

\* getDependencies resumes after await Package.fromSemanticVersion(...)
ResumeLoop(id) ==
    /\ tasks[id].pc = "gd_fsvret"
    /\ Commit(id, getDependencies_afterFromSemanticVersion(World(id)))
    /\ UNCHANGED history

TaskStep(id) ==
    \/ \E outcome \in FetchOutcomes : Attempt(id, outcome)
    \/ ResumeGetDependencies(id)
    \/ ResumeFromSemanticVersion(id)
    \/ ResumeLoop(id)

\* the caller calls pkg.download() on an existing Package
Download(id, self) ==
    /\ Free(id)
    /\ Call("download", <<>>, self)
    /\ Commit(id, download_call(World(id), self))

\* download resumes after await fetch(this.tarballURL)
DownloadFetched(id, outcome) ==
    /\ tasks[id].pc = "dl_fetch"
    /\ Commit(id, download_afterFetch(World(id), outcome))
    /\ UNCHANGED history

\* download resumes after await response.buffer()
DownloadBuffered(id, outcome) ==
    /\ tasks[id].pc = "dl_buffer"
    /\ Commit(id, download_afterBuffer(World(id), outcome))
    /\ UNCHANGED history

DownloadStep(id) ==
    \/ \E outcome \in DownloadFetchOutcomes : DownloadFetched(id, outcome)
    \/ \E outcome \in BufferOutcomes : DownloadBuffered(id, outcome)

\* The caller has one call in progress at a time.
Next ==
    \/ \E s \in SpecifierInputs : FromString(s)
    \/ \E fullNames \in SeedLists : FillCacheByFullNames(fullNames)
    \/ \E self \in 1..Len(nodes) : GetDependencies(1, self)
    \/ \E in \in ResolveInputs : FromSemanticVersion(1, in[1], in[2])
    \/ TaskStep(1)

Spec == Init /\ [][Next]_vars

----------------------------------------------------------------------------
(* The mutual-dependency scenario: a@1.0.0 lists b and b lists a, each by a  *)
(* specifier that resolves to the one published version of the other.        *)

V200 == VersionString("2", "0", "0")
SpecifiersOfB == {V100, <<"^">> \o V100, <<"<">> \o V200, STAR}
SpecifiersOfA == {V100, <<"^">> \o V100, <<"<">> \o V200}

MutualRegistry(specOfB, specOfA) ==
    (NameA :> [latest |-> V100, hasVersions |-> TRUE, versions |->
                (V100 :> VersionMetadata(TRUE, <<<<NameB, specOfB>>>>, TarballURL("a-1.0.0.tgz")))])
    @@ (NameB :> [latest |-> V100, hasVersions |-> TRUE, versions |->
                (V100 :> VersionMetadata(TRUE, <<<<NameA, specOfA>>>>, TarballURL("b-1.0.0.tgz")))])

MutualRegistries ==
    {MutualRegistry(specOfB, specOfA) : specOfB \in SpecifiersOfB, specOfA \in SpecifiersOfA}

InitCycle ==
    /\ registry \in MutualRegistries
    /\ nodes = <<>>
    /\ cache = <<>>
    /\ apiCache = <<>>
    /\ tasks = [id \in CallSlots |-> IdleTask]
    /\ lastCall = NoCall
    /\ files = <<>>
    /\ history = <<>>

\* The caller resolves "a@1.0.0" and expands nodes, one call at a time.
NextCycle ==
    \/ FromString(SpecA100)
    \/ \E self \in 1..Len(nodes) : GetDependencies(1, self)
    \/ TaskStep(1)

SpecCycle == InitCycle /\ [][NextCycle]_vars

----------------------------------------------------------------------------
(* Downloads: the caller resolves a@1.0.0 or b (b@latest, published without *)
(* a tarball), expands nodes and downloads their archives.                  *)

NextDownload ==
    \/ \E s \in {SpecA100, NameB} : FromString(s)
    \/ \E self \in 1..Len(nodes) : GetDependencies(1, self)
    \/ \E self \in 1..Len(nodes) : Download(1, self)
    \/ TaskStep(1)
    \/ DownloadStep(1)

SpecDownload == Init /\ [][NextDownload]_vars

----------------------------------------------------------------------------
(* Calls in progress at the same time: a second call may start and run while *)
(* the first is suspended at an await.                                       *)

ConcurrentResolveInputs == {<<NameB, Below400>>, <<NameA, STAR>>}

NextConcurrent ==
    \/ \E s \in {SpecA100, NameB} : FromString(s)
    \/ FillCacheByFullNames(<<SpecA100, SpecB393>>)
    \/ \E id \in CallSlots, self \in 1..Len(nodes) : GetDependencies(id, self)
    \/ \E id \in CallSlots, in \in ConcurrentResolveInputs : FromSemanticVersion(id, in[1], in[2])
    \/ \E id \in CallSlots : TaskStep(id)

SpecConcurrent == Init /\ [][NextConcurrent]_vars

----------------------------------------------------------------------------
(* Claims *)

Done(id, op) == tasks[id].op = op /\ tasks[id].pc = "done"
FetchPcs == {"gd_fetch", "fsv_fetch"}
FailedAttempts == {"exception", "badbody"}

\* C1: at most one Package instance exists per fullName, under every
\* interleaving of the calls: no two instances of the heap have the same
\* fullName, every cache entry refers to an instance, and every Package that
\* fromNameAndVersion has returned (to fromString, to fromSemanticVersion, to
\* the loop of getDependencies) is the one instance of the fullName asked for,
\* so two calls with the same (name, version) return the identical node.
C1_OneInstancePerFullName ==
    /\ \A i, j \in 1..Len(nodes) : fullName(nodes[i]) = fullName(nodes[j]) => i = j
    /\ \A k \in DOMAIN cache : cache[k] \in 1..Len(nodes)
    /\ (lastCall.op = "fromString" /\ lastCall.ret # 0) =>
          LET parsed == npmPackageArg(lastCall.args[1])
              key == fullNameByNameAndVersion(parsed.name, parsed.fetchSpec)
          IN  /\ lastCall.ret \in 1..Len(nodes)
              /\ fullName(nodes[lastCall.ret]) = key
              /\ cache[key] = lastCall.ret
    /\ \A id \in CallSlots :
          /\ (Done(id, "fromSemanticVersion") /\ tasks[id].ret.kind = "return") =>
                /\ tasks[id].ret.pkg \in 1..Len(nodes)
                /\ nodes[tasks[id].ret.pkg].name = tasks[id].depName
                /\ cache[fullName(nodes[tasks[id].ret.pkg])] = tasks[id].ret.pkg
          /\ tasks[id].pc = "gd_fsvret" =>
                /\ tasks[id].dependency \in 1..Len(nodes)
                /\ nodes[tasks[id].dependency].name = tasks[id].depName
                /\ cache[fullName(nodes[tasks[id].dependency])] = tasks[id].dependency

\* C1 witness: two calls of fromSemanticVersion that were in progress at the
\* same time asked for the same (name, version) and got the same Package.
C1_Witness ==
    /\ Done(1, "fromSemanticVersion") /\ Done(2, "fromSemanticVersion")
    /\ tasks[1].semanticVersion = Below400 /\ tasks[2].semanticVersion = Below400
    /\ tasks[1].lastOutcome = "ok" /\ tasks[2].lastOutcome = "ok"
    /\ tasks[1].ret.kind = "return"
    /\ tasks[1].ret = tasks[2].ret
    /\ Len(nodes) = 1

\* C2: mutual dependency.  From an empty cache, A = a@1.0.0 is resolved and
\* expanded (creating B, the node its one entry resolves to), then B is
\* expanded: afterwards A.dependencies = [B] and B.dependencies = [], the edge
\* back to A being dropped.
C2_MutualDependency ==
    (/\ Len(history) = 3
     /\ history[1].op = "fromString"
     /\ history[2].op = "getDependencies" /\ history[2].self = 1
     /\ history[3].op = "getDependencies" /\ history[3].self = 2
     /\ tasks[1].pc = "done") =>
         /\ nodes[1].dependencies = <<2>>
         /\ nodes[2].dependencies = <<>>
         /\ nodes[2].dependents = <<1>>
         /\ nodes[1].dependents = <<>>

\* C2 witness: both expansions ran through the dependency loop to the end.
C2_Witness ==
    /\ Len(history) = 3
    /\ history[2].op = "getDependencies" /\ history[2].self = 1
    /\ history[3].op = "getDependencies" /\ history[3].self = 2
    /\ tasks[1].pc = "done" /\ tasks[1].exit = "getDependencies:143"
    /\ tasks[1].ret = Return(<<>>)
    /\ nodes[1].dependencies = <<2>>
    /\ fullName(nodes[1]) = SpecA100
    /\ nodes[2].name = NameB

\* C3: when the last attempt of the metadata request of getDependencies is
\* answered with HTTP 404, getDependencies returns the empty sequence and does
\* not raise, and the node's error flag is what it was before the call (false
\* when it was false).
C3_NotFoundReturnsEmpty ==
    \A id \in CallSlots :
        (Done(id, "getDependencies") /\ tasks[id].metaOutcome = "notfound") =>
            /\ tasks[id].ret = Return(<<>>)
            /\ tasks[id].exit = "getDependencies:99"
            /\ nodes[tasks[id].self].error = tasks[id].errorBefore

\* C3 witness: a node without error was expanded and the registry said 404.
C3_Witness ==
    /\ Done(1, "getDependencies")
    /\ tasks[1].metaOutcome = "notfound"
    /\ ~tasks[1].errorBefore
    /\ ~nodes[tasks[1].self].error
    /\ tasks[1].ret = Return(<<>>)

C5_CaretSelectsMaximum ==
    \A id \in CallSlots :
        (/\ Done(id, "fromSemanticVersion")
         /\ tasks[id].depName = NameB
         /\ tasks[id].semanticVersion = Caret300) =>
            /\ tasks[id].ret.kind = "return"
            /\ nodes[tasks[id].ret.pkg].version = V393

\* C5 amended: with b published as {3.0.0, 3.9.3, 4.0.0},
\* fromSemanticVersion(b, "^3.0.0") yields the node with version "3.0.0", the
\* lower bound of the range, without asking the registry: a specifier without
\* '<' and '-' is coerced to its first X.Y.Z.  The maximum published version
\* that satisfies the range is selected for a specifier with '<' or '-':
\* fromSemanticVersion(b, "<4.0.0"), when it returns, yields version "3.9.3".
C5_CaretIsCoerced ==
    \A id \in CallSlots :
        /\ (/\ Done(id, "fromSemanticVersion")
            /\ tasks[id].depName = NameB
            /\ tasks[id].semanticVersion = Caret300) =>
               /\ tasks[id].ret.kind = "return"
               /\ nodes[tasks[id].ret.pkg].name = NameB
               /\ nodes[tasks[id].ret.pkg].version = V300
               /\ tasks[id].lastOutcome = "none"
        /\ (/\ Done(id, "fromSemanticVersion")
            /\ tasks[id].depName = NameB
            /\ tasks[id].semanticVersion = Below400
            /\ tasks[id].ret.kind = "return") =>
               /\ nodes[tasks[id].ret.pkg].name = NameB
               /\ nodes[tasks[id].ret.pkg].version = V393

\* C5 witness: fromSemanticVersion(b, "^3.0.0") has returned b@3.0.0 while the
\* registry publishes b 3.0.0, 3.9.3 and 4.0.0.
C5_Witness ==
    /\ Done(1, "fromSemanticVersion")
    /\ tasks[1].depName = NameB
    /\ tasks[1].semanticVersion = Caret300
    /\ tasks[1].ret.kind = "return"
    /\ fullName(nodes[tasks[1].ret.pkg]) = NameB \o AT \o V300
    /\ DOMAIN registry[NameB].versions = {V300, V393, V400}

\* C6 as claimed: every node of the resolution cache has fullName = name "@"
\* version and a version that is a concrete X.Y.Z or "latest", never a range.
C6_CachedVersionsAreConcrete ==
    \A k \in DOMAIN cache :
        LET pkg == nodes[cache[k]]
        IN  /\ fullName(pkg) = pkg.name \o AT \o pkg.version
            /\ IsConcreteVersion(pkg.version) \/ pkg.version = LATEST

\* the well-formed strings fillCacheByFullNames has been given so far
Seeded ==
    {str \in UNION {{history[i].args[j] : j \in 1..Len(history[i].args)} :
                      i \in {n \in 1..Len(history) : history[n].op = "fillCacheByFullNames"}} :
        npmPackageArg(str).ok}

IsSyncCall(op) == op \in {"fromString", "fillCacheByFullNames"}

\* C7: once fillCacheByFullNames has been given a well-formed string, a call
\* of fromString with that string returns the node seeded under it, with
\* resolved = true; and neither call issues a request: it leaves the calls in
\* progress, their fetch counts and the apiCache as they are.
C7_SeededIsResolved ==
    /\ [](lastCall.op = "fromString" /\ lastCall.args[1] \in Seeded =>
            /\ lastCall.ret \in 1..Len(nodes)
            /\ cache[lastCall.args[1]] = lastCall.ret
            /\ nodes[lastCall.ret].resolved)
    /\ [][(Len(history') > Len(history) /\ IsSyncCall(history'[Len(history')].op)) =>
            (tasks' = tasks /\ apiCache' = apiCache)]_vars

\* C7 witness: fromString was called with a seeded string and returned the
\* seeded, resolved node.
C7_Witness ==
    /\ lastCall.op = "fromString"
    /\ lastCall.args[1] \in Seeded
    /\ lastCall.ret # 0
    /\ nodes[lastCall.ret].resolved
    /\ fullName(nodes[lastCall.ret]) = lastCall.args[1]

\* C8 as claimed: fromSemanticVersion never fails: whatever the registry
\* answers, it returns a node whose version is concrete or "latest".
C8_ResolutionNeverFails ==
    \A id \in CallSlots :
        Done(id, "fromSemanticVersion") =>
            /\ tasks[id].ret.kind = "return"
            /\ tasks[id].ret.pkg \in 1..Len(nodes)
            /\ \/ IsConcreteVersion(nodes[tasks[id].ret.pkg].version)
               \/ nodes[tasks[id].ret.pkg].version = LATEST

\* C9 as claimed: a non-success status other than 404 is a failed attempt that
\* is retried; the request fails only after MAX_TRIES attempts, with
\* TOO_MANY_FAILURES.
C9_ErrorStatusIsRetried ==
    \A id \in CallSlots :
        (tasks[id].pc \in {"gd_apiret", "fsv_apiret"} /\ tasks[id].lastOutcome = "status") =>
            /\ tasks[id].fetches = MAX_TRIES
            /\ tasks[id].out = Throw(TOO_MANY_FAILURES)

\* C9 amended: a response with a non-success status is never retried: 404 ends
\* apiRequest at once with REGISTRY_ERROR and any other non-success status
\* ends it at once with the response's status text.  Only a fetch exception or
\* an empty or unparseable body is a failed attempt that is retried, until an
\* attempt succeeds or MAX_TRIES = 10 attempts were made, and only then does
\* the request fail with TOO_MANY_FAILURES.  A failed attempt followed by a
\* successful response yields the registry's metadata.
C9_ErrorStatusEndsRequest ==
    \A id \in CallSlots :
        /\ (tasks[id].pc \in FetchPcs /\ tasks[id].fetches > 1) =>
              tasks[id].lastOutcome \in FailedAttempts
        /\ tasks[id].pc \in {"gd_apiret", "fsv_apiret"} =>
              /\ tasks[id].lastOutcome = "status" => tasks[id].out = Throw(StatusText)
              /\ tasks[id].lastOutcome = "notfound" => tasks[id].out = Throw(REGISTRY_ERROR)
              /\ tasks[id].out = Throw(TOO_MANY_FAILURES) =>
                    (tasks[id].fetches = MAX_TRIES /\ tasks[id].lastOutcome \in FailedAttempts)
              /\ tasks[id].lastOutcome = "ok" =>
                    tasks[id].out = Value(RegistryAnswer(registry, tasks[id].reqName,
                                                         tasks[id].reqVersion).body)

\* C9 witness: the second attempt of a request was answered with a non-404
\* error status and the request has failed with the status text.
C9_Witness ==
    /\ tasks[1].pc = "gd_apiret"
    /\ tasks[1].fetches = 2
    /\ tasks[1].lastOutcome = "status"
    /\ tasks[1].out = Throw(StatusText)

\* C10 as claimed: when the name is in the apiCache and the version asked for
\* is no key of the cached versions map, getDependencies returns the empty
\* sequence and leaves node.error false.
C10_MissingVersionIsNotFound ==
    \A id \in CallSlots :
        LET pkg == nodes[tasks[id].self]
        IN  (/\ Done(id, "getDependencies")
             /\ tasks[id].metaOutcome = "none"
             /\ pkg.name \in DOMAIN apiCache
             /\ apiCache[pkg.name].hasVersions
             /\ pkg.version \notin DOMAIN apiCache[pkg.name].versions) =>
                /\ tasks[id].ret = Return(<<>>)
                /\ ~pkg.error

ApiRetPcs == {"gd_apiret", "fsv_apiret"}

\* C11: in a run with one call in progress at a time, an apiCache entry is
\* what the registry answered to the request without version and, once
\* written, is never changed or removed; no request is issued for a name that
\* is in the apiCache (a call of apiRequest for such a name, with or without
\* version, is answered from the entry with zero fetches); and the response to
\* a request with a version is never written to the apiCache.
C11_ApiCacheIsWrittenOnce ==
    /\ [](/\ \A n \in DOMAIN apiCache :
                apiCache[n] = RegistryAnswer(registry, n, EMPTY).body
          /\ \A id \in CallSlots :
                /\ tasks[id].pc \in FetchPcs => tasks[id].reqName \notin DOMAIN apiCache
                /\ (tasks[id].pc \in ApiRetPcs /\ tasks[id].fetches = 0) =>
                      /\ tasks[id].reqName \in DOMAIN apiCache
                      /\ tasks[id].out.kind = "value" =>
                            tasks[id].out.resp =
                                IF tasks[id].reqVersion = EMPTY
                                THEN apiCache[tasks[id].reqName]
                                ELSE apiCache[tasks[id].reqName].versions[tasks[id].reqVersion])
    /\ [][/\ \A n \in DOMAIN apiCache : n \in DOMAIN apiCache' /\ apiCache'[n] = apiCache[n]
          /\ apiCache' # apiCache =>
                \E id \in CallSlots :
                    /\ tasks[id].pc \in FetchPcs
                    /\ tasks[id].reqVersion = EMPTY
                    /\ DOMAIN apiCache' = DOMAIN apiCache \cup {tasks[id].reqName}]_vars

\* C11 witness: b's metadata was cached by a request without version, and a
\* later getDependencies of b@3.9.3 got its metadata from the entry, without
\* a fetch.
C11_Witness ==
    /\ NameB \in DOMAIN apiCache
    /\ tasks[1].op = "getDependencies"
    /\ tasks[1].pc = "gd_apiret"
    /\ tasks[1].reqName = NameB /\ tasks[1].reqVersion = V393
    /\ tasks[1].fetches = 0
    /\ tasks[1].out = Value(registry[NameB].versions[V393])

\* C12 as claimed: while two calls of apiRequest without version for the same
\* name are in progress, at most one request for that name is in flight.
C12_SingleFlightPerName ==
    \A i, j \in CallSlots :
        (/\ i # j
         /\ tasks[i].pc \in FetchPcs /\ tasks[j].pc \in FetchPcs
         /\ tasks[i].reqVersion = EMPTY /\ tasks[j].reqVersion = EMPTY) =>
            tasks[i].reqName # tasks[j].reqName

\* C13 as claimed: download writes the archive file only after an attempt
\* succeeded: a response with a non-success status is a failed attempt, so
\* every file written holds the body of a success response, and a download
\* whose last response had a non-success status has not returned normally.
C13_WritesOnlyAfterSuccess ==
    /\ \A i \in 1..Len(files) : files[i].data = "archive"
    /\ \A id \in CallSlots :
          (Done(id, "download") /\ tasks[id].lastOutcome \in {"notfound", "status"}) =>
              tasks[id].ret.kind = "throw"

\* the nodes reachable from the nodes of S by following dependents edges, the
\* nodes of S included
RECURSIVE DependentsClosure(_, _)
DependentsClosure(ns, S) ==
    LET T == S \cup UNION {{ns[n].dependents[i] : i \in 1..Len(ns[n].dependents)} : n \in S}
    IN  IF T = S THEN S ELSE DependentsClosure(ns, T)

\* C14: self.isAncestorEqual(pkg) returns true exactly when pkg has the
\* fullName of self or of a node reachable from self by following dependents
\* edges transitively, and false otherwise; it is true for a node asked about
\* itself and false for a root asked about any other node.
C14_IsAncestorEqual ==
    \A self, pkg \in 1..Len(nodes) :
        /\ isAncestorEqual(nodes, self, pkg) =
              IF \E n \in DependentsClosure(nodes, {self}) :
                     fullName(nodes[n]) = fullName(nodes[pkg])
              THEN "true" ELSE "false"
        /\ isAncestorEqual(nodes, self, self) = "true"
        /\ (isRoot(nodes[self]) /\ pkg # self) => isAncestorEqual(nodes, self, pkg) = "false"

\* C14 witness: a chain of two dependents edges (node 3 was asked for by node
\* 2, node 2 by the root node 1): the walk from node 3 finds node 1 two levels
\* up and the root does not find node 3.
C14_Witness ==
    /\ Len(nodes) = 3
    /\ nodes[3].dependents = <<2>> /\ nodes[2].dependents = <<1>> /\ isRoot(nodes[1])
    /\ isAncestorEqual(nodes, 3, 1) = "true"
    /\ isAncestorEqual(nodes, 1, 3) = "false"
    /\ tasks[1].op = "getDependencies" /\ tasks[1].self = 2

\* C15 as claimed: a failure raised while a child's range specifier is
\* resolved inside the dependency loop of getDependencies (the child's
\* metadata request without version fails and fromSemanticVersion rethrows at
\* line 242) is raised to the caller with the node's error flag set.
C15_FailureSetsError ==
    \A id \in CallSlots :
        (/\ Done(id, "getDependencies")
         /\ tasks[id].exit = "fromSemanticVersion:242") =>
            /\ tasks[id].ret.kind = "throw"
            /\ nodes[tasks[id].self].error

\* the version fromSemanticVersion(name, semanticVersion) is to resolve to,
\* given what the registry publishes
ResolvedVersion(name, semanticVersion) ==
    IF semanticVersion = STAR THEN LATEST
    ELSE IF includes(semanticVersion, "<") \/ includes(semanticVersion, "-")
    THEN LET m == maxSatisfying(DOMAIN registry[name].versions, semanticVersion)
         IN  IF m = EMPTY THEN LATEST ELSE m
    ELSE IF coerce(semanticVersion) = EMPTY THEN LATEST ELSE coerce(semanticVersion)

\* the number of occurrences of x in the sequence s
Occurrences(s, x) == Cardinality({i \in 1..Len(s) : s[i] = x})

\* C16: when getDependencies has run through the dependency list to its end,
\* what it returns is stored as the node's dependencies and is the list's
\* entries in the list's order, each mapped to the cache node of its resolved
\* (name, version), without the entries whose node is the node itself or one
\* of its ancestors; and every returned child has the node in its dependents
\* exactly once, also after a repeated expansion.
C16_DependenciesInOrder ==
    \A id \in CallSlots :
        (Done(id, "getDependencies") /\ tasks[id].exit = "getDependencies:143") =>
            LET self == tasks[id].self
                entries == RegistryAnswer(registry, nodes[self].name,
                                          nodes[self].version).body.dependencies
                child(e) == cache[fullNameByNameAndVersion(e[1], ResolvedVersion(e[1], e[2]))]
                ancestorsOrSelf == DependentsClosure(nodes, {self})
                Kept(e) == child(e) \notin ancestorsOrSelf
                kept == SelectSeq(entries, Kept)
            IN  /\ tasks[id].ret.kind = "return"
                /\ tasks[id].ret.pkgs = [i \in 1..Len(kept) |-> child(kept[i])]
                /\ nodes[self].dependencies = tasks[id].ret.pkgs
                /\ \A i \in 1..Len(tasks[id].ret.pkgs) :
                      Occurrences(nodes[tasks[id].ret.pkgs[i]].dependents, self) = 1

\* C16 witness: the second expansion of a@1.0.0 has returned its two
\* children, in the order of the dependency list.
C16_Witness ==
    /\ Len(history) = 3
    /\ history[2].op = "getDependencies" /\ history[3].op = "getDependencies"
    /\ history[2].self = history[3].self
    /\ Done(1, "getDependencies") /\ tasks[1].exit = "getDependencies:143"
    /\ fullName(nodes[tasks[1].self]) = SpecA100
    /\ Len(tasks[1].ret.pkgs) = 2
    /\ nodes[tasks[1].ret.pkgs[1]].name = NameC
    /\ nodes[tasks[1].ret.pkgs[2]].name = NameB
    /\ nodes[tasks[1].self].dependencies = tasks[1].ret.pkgs

\* C16 witness of a dropped entry: b@3.9.3, a child of a@1.0.0, was expanded;
\* its one entry resolves to a@1.0.0, its ancestor, and nothing is returned.
C16_WitnessDropped ==
    /\ Done(1, "getDependencies") /\ tasks[1].exit = "getDependencies:143"
    /\ fullName(nodes[tasks[1].self]) = SpecB393
    /\ nodes[tasks[1].self].dependents # <<>>
    /\ tasks[1].ret = Return(<<>>)

\* C17 as claimed: once a call of getDependencies has finished, by a return
\* or by a failure, the node's loading flag is false again.
C17_LoadingEndsWithCall ==
    \A id \in CallSlots :
        Done(id, "getDependencies") => ~nodes[tasks[id].self].loading

\* C18 as claimed: after a call of getDependencies whose metadata request
\* ended with HTTP 404, the node's dependencies are the empty list and its
\* error flag is false, whatever earlier expansions of the node did.
C18_NotFoundLeavesNodeEmpty ==
    \A id \in CallSlots :
        (Done(id, "getDependencies") /\ tasks[id].metaOutcome = "notfound") =>
            /\ nodes[tasks[id].self].dependencies = <<>>
            /\ ~nodes[tasks[id].self].error

\* the dependents relation of the heap has no cycle: no node is reachable
\* from one of its own dependents
DependentsAcyclic(ns) ==
    \A n \in 1..Len(ns) :
        n \notin DependentsClosure(ns, {ns[n].dependents[i] : i \in 1..Len(ns[n].dependents)})

\* the nodes reachable from the nodes of S by following dependencies edges
RECURSIVE DependenciesClosure(_, _)
DependenciesClosure(ns, S) ==
    LET T == S \cup UNION {{ns[n].dependencies[i] : i \in 1..Len(ns[n].dependencies)} : n \in S}
    IN  IF T = S THEN S ELSE DependenciesClosure(ns, T)

\* C19: in every reachable state, whatever calls of getDependencies were made
\* and however they were interleaved at their awaits, the dependents relation
\* is acyclic, the dependencies relation is acyclic, every c in
\* n.dependencies has n in c.dependents, and the walk of isAncestorEqual
\* returns for every pair of nodes.
C19_DependentsAcyclic ==
    /\ DependentsAcyclic(nodes)
    /\ \A n \in 1..Len(nodes) :
          /\ n \notin DependenciesClosure(nodes,
                 {nodes[n].dependencies[i] : i \in 1..Len(nodes[n].dependencies)})
          /\ \A i \in 1..Len(nodes[n].dependencies) :
                SeqContains(nodes[nodes[n].dependencies[i]].dependents, n)
    /\ \A self, pkg \in 1..Len(nodes) : isAncestorEqual(nodes, self, pkg) \in {"true", "false"}
    /\ \A id \in CallSlots : tasks[id].exit # "getDependencies:118"

\* C19 witness: a@1.0.0 and b@3.9.3, which depend on each other, were seeded
\* and then expanded at the same time (the second call was made before the
\* first one came back from its metadata request); both expansions have run
\* to their end and exactly one of the two edges was kept.
C19_Witness ==
    /\ Len(history) = 3
    /\ history[1].op = "fillCacheByFullNames"
    /\ Done(1, "getDependencies") /\ Done(2, "getDependencies")
    /\ tasks[1].exit = "getDependencies:143" /\ tasks[2].exit = "getDependencies:143"
    /\ fullName(nodes[tasks[1].self]) = SpecA100
    /\ fullName(nodes[tasks[2].self]) = SpecB393
    /\ tasks[1].metaOutcome = "ok" /\ tasks[2].metaOutcome = "ok"
    /\ nodes[tasks[2].self].dependencies = <<tasks[1].self>>
    /\ ~SeqContains(nodes[tasks[1].self].dependencies, tasks[2].self)

\* C20 as claimed: every entry of the resolution cache is stored under the
\* fullName of its node, so each node is stored under one key; also after
\* fillCacheByFullNames was given a bare name.
C20_CacheKeyIsFullName ==
    /\ \A k \in DOMAIN cache : k = fullName(nodes[cache[k]])
    /\ \A k1, k2 \in DOMAIN cache : cache[k1] = cache[k2] => k1 = k2

====
